---- MODULE Spec2Model ----
(***************************************************************************)
(* Model of the traffic-lane prediction service (server.py) and of the     *)
(* parts of the training script (train_model.py) that the server depends   *)
(* on: the time-indicator features and the artifacts dumped to model/.     *)
(*                                                                         *)
(* Numbers.  The code works in floating point; the model uses fixed point: *)
(*   - feature values are in tenths       (14.5 is written 145),           *)
(*   - standardized values in hundredths  (1.30 is written 130),           *)
(*   - probabilities in units of 1e-5     (0.33334 is written 33334),      *)
(*   - 100 * probability in units of 1e-3 (same integer as the probability)*)
(*   - the rounded confidence in hundredths of a percent.                  *)
(***************************************************************************)
EXTENDS Integers, Sequences, FiniteSets, TLC

VARIABLES
    disk,           \* which artifact set lies in MODEL_DIR when the server starts
    phase,          \* "boot", "serving" or "crashed" (module load of server.py)
    model,          \* server.py globals, set by the module-level loads
    scaler,
    label_encoder,
    model_config,
    pc,             \* per worker thread: position inside the request handler
    req,            \* per worker thread: the request being handled
    loc,            \* per worker thread: the handler's local variables
    resp,           \* per worker thread: the response sent
    fin,            \* input of the pure function under study (function specs)
    fout            \* its output

vars == <<disk, phase, model, scaler, label_encoder, model_config,
          pc, req, loc, resp, fin, fout>>

srv == <<disk, phase, model, scaler, label_encoder, model_config>>
thr == <<pc, req, loc, resp>>
fnv == <<fin, fout>>

----------------------------------------------------------------------------
(* Bounds of the model *)

NumThreads == 2
MaxLen == 2
MaxTick == 2

Threads == 1..NumThreads
CountValues == {2, 10}
Ticks == 1..MaxTick

----------------------------------------------------------------------------
(* Small helpers *)

RECURSIVE SumTo(_, _)
SumTo(f, n) == IF n = 0 THEN 0 ELSE f[n] + SumTo(f, n - 1)

SeqsUpTo(S, n) == UNION {[1..k -> S] : k \in 0..n}

Bit(b) == IF b THEN 1 ELSE 0

----------------------------------------------------------------------------
(* Time indicators: server.py lines 46-49 *)

IsMorningRush(current_hour) == Bit(7 <= current_hour /\ current_hour <= 9)

IsEveningRush(current_hour) == Bit(16 <= current_hour /\ current_hour <= 19)

IsNightOffByOne(current_hour) == Bit(current_hour >= 22 \/ current_hour <= 4)
IsNight(current_hour) == Bit(current_hour >= 22 \/ current_hour < 4)

IsWeekend(current_day) == Bit(current_day >= 5)

----------------------------------------------------------------------------
(* Artifacts in MODEL_DIR *)

\* LabelEncoder.fit_transform sorts the labels of the training data.
Classes == <<"heavy", "high", "low", "normal">>

FeatureNames == <<"scaled_total", "current_hour", "current_day",
                  "is_morning_rush", "is_evening_rush", "is_night", "is_weekend">>

\* The keys server.py reads from config.pkl (module load, /health, banner).
RequiredConfigKeys == {"model_type", "feature_names", "test_accuracy"}

\* The dictionary train_model.py dumps to config.pkl.  The values taken from
\* the config module are not read by the server and are kept symbolic.
TrainedConfig ==
    [sequence_length |-> "config.SEQUENCE_LENGTH",
     time_features   |-> "config.TIME_FEATURES",
     hidden_size     |-> "config.HIDDEN_SIZE",
     num_classes     |-> Len(Classes),
     model_type      |-> "TrafficLSTM"]

\* A config.pkl holding what server.py reads.
ServingConfig ==
    [model_type    |-> "TrafficClassifier",
     feature_names |-> FeatureNames,
     test_accuracy |-> 9500]

\* A StandardScaler fit on the seven server features: per-feature mean_ and
\* scale_ (tenths).
ServingScaler ==
    [mean  |-> <<800, 120, 30, 1, 2, 2, 3>>,
     scale |-> <<500, 70, 20, 3, 4, 4, 5>>]

\* A scaler fit on eight columns: transform of a 7-column row raises.
WideScaler ==
    [mean  |-> <<800, 120, 30, 1, 2, 2, 3, 0>>,
     scale |-> <<500, 70, 20, 3, 4, 4, 5, 10>>]

\* The loaded keras model is opaque to the service.  It is modelled as a
\* deterministic classifier: a linear score of the standardized input,
\* cut into ranges, each range with its softmax output (units of 1e-5).
ServingModel ==
    [nin  |-> 7,
     w    |-> <<3, 0, 0, 0, 1, 0, 0>>,
     cuts |-> <<-200, 0, 300>>,
     out  |-> << <<1000, 2000, 90000, 7000>>,
                 <<5000, 5000, 30002, 59998>>,
                 <<33334, 33333, 33333, 0>>,
                 <<29999, 70001, 0, 0>> >>]

\* The same classifier built for an eight-column input.
WideModel == [ServingModel EXCEPT !.nin = 8, !.w = <<3, 0, 0, 0, 1, 0, 0, 0>>]

\* What train_model.py leaves in MODEL_DIR: a scaler fit on the count
\* sequences, a two-input LSTM, the label encoder and TrainedConfig.
TrainedArtifacts ==
    [model         |-> [kind |-> "TrafficLSTM", inputs |-> <<"sequence_input", "time_input">>],
     scaler        |-> [kind |-> "StandardScaler", fit_on |-> "X_seq_train"],
     label_encoder |-> [classes |-> Classes],
     model_config  |-> TrainedConfig]

DiskKinds == {"serving", "widescaler", "widemodel", "trained"}

Artifacts(d) ==
    IF d = "trained" THEN TrainedArtifacts
    ELSE [model         |-> IF d = "widemodel" THEN WideModel ELSE ServingModel,
          scaler        |-> IF d = "widescaler" THEN WideScaler ELSE ServingScaler,
          label_encoder |-> [classes |-> Classes],
          model_config  |-> ServingConfig]

NotLoaded == [loaded |-> FALSE]

----------------------------------------------------------------------------
(* scaler.transform and model.predict *)

Failed(msg) == [ok |-> FALSE, val |-> << >>, error |-> msg]
Value(v) == [ok |-> TRUE, val |-> v, error |-> ""]

\* StandardScaler.transform: (x - mean_) / scale_, in hundredths; raises
\* ValueError when the number of columns differs from the fit.
Transform(s, x) ==
    IF Len(x) # Len(s.mean)
    THEN Failed("ValueError: X has a different number of features")
    ELSE Value([i \in 1..Len(x) |-> ((x[i] - s.mean[i]) * 100) \div s.scale[i]])

\* transform leaves the fitted scaler as it is.
ScalerRefit(s, x) == [mean |-> x, scale |-> [i \in 1..Len(x) |-> 10]]
ScalerAfterTransform(s, x) == s

Score(m, z) == SumTo([i \in 1..Len(z) |-> m.w[i] * z[i]], Len(z))

\* model.predict: raises when the input width is not the model's.
Predict(m, z) ==
    IF Len(z) # m.nin
    THEN Failed("ValueError: incompatible input shape")
    ELSE LET sc == Score(m, z)
             k  == Cardinality({j \in 1..Len(m.cuts) : m.cuts[j] <= sc})
         IN  Value(m.out[k + 1])

----------------------------------------------------------------------------
(* Decoding the model output: server.py lines 72-75 and 89 *)

RECURSIVE ArgMaxFrom(_, _, _)
ArgMaxFrom(p, i, best) ==
    IF i > Len(p) THEN best
    ELSE ArgMaxFrom(p, i + 1, IF p[i] > p[best] THEN i ELSE best)

RECURSIVE ArgMaxLastFrom(_, _, _)
ArgMaxLastFrom(p, i, best) ==
    IF i > Len(p) THEN best
    ELSE ArgMaxLastFrom(p, i + 1, IF p[i] >= p[best] THEN i ELSE best)

\* np.argmax: the first index of the maximum, counted from 0.
ArgMaxLast(p) == ArgMaxLastFrom(p, 2, 1) - 1
ArgMax(p) == ArgMaxFrom(p, 2, 1) - 1

\* predictions[0][predicted_class] * 100 (units of 1e-3 percent).
Confidence(p, predicted_class) == p[predicted_class + 1]

\* label_encoder.inverse_transform([predicted_class])[0]
InverseTransform(le, predicted_class) == le.classes[predicted_class + 1]

ShouldOpenHeavyOnly(prediction) == prediction \in {"heavy"}
ShouldOpen(prediction) == prediction \in {"heavy", "high"}

\* round(x, 2): x in units of 1e-3, the result in hundredths; a value
\* halfway between two hundredths goes to the even one.
Round2(x) ==
    LET q == x \div 10
        r == x % 10
    IN  IF r < 5 THEN q
        ELSE IF r > 5 THEN q + 1
        ELSE IF q % 2 = 0 THEN q ELSE q + 1

----------------------------------------------------------------------------
(* Requests *)

Num(n) == [num |-> TRUE, v |-> n]
NonNumeric == [num |-> FALSE, v |-> 0]

\* Time context a client may put into the payload.
NoTime == [given |-> FALSE, hour |-> 0, day |-> 0]
TimeContexts == {NoTime, [given |-> TRUE, hour |-> 8, day |-> 6]}

\* The 'counts' value of a JSON body: a list of numbers, or a list holding
\* a non-numeric element.  Any other JSON value with a len() (a string, an
\* object) takes the same path through the handler as a list of that length
\* whose first element is not a number.
CountLists ==
    SeqsUpTo({Num(n) : n \in CountValues}, MaxLen) \cup {<<NonNumeric>>}

\* kind: "nobody"   no JSON body,
\*       "nocounts" a JSON object without the key 'counts',
\*       "scalar"   'counts' is a number (it has no len()),
\*       "list"     'counts' is a list.
PredictRequests ==
    {[route |-> "predict", kind |-> k, counts |-> << >>, time |-> tc] :
        k \in {"nobody", "nocounts", "scalar"}, tc \in {NoTime}}
    \cup
    {[route |-> "predict", kind |-> "list", counts |-> c, time |-> tc] :
        c \in CountLists, tc \in TimeContexts}

HealthRequest == [route |-> "health", kind |-> "get", counts |-> << >>, time |-> NoTime]

NoReq == [route |-> "none", kind |-> "none", counts |-> << >>, time |-> NoTime]

----------------------------------------------------------------------------
(* Responses *)

NoResp == [kind |-> "none", status |-> 0]

\* jsonify({'error': ...}), status: server.py lines 34 and 106
ErrorResponseNoMessage(code, msg) == [kind |-> "error", status |-> code, error |-> ""]
ErrorResponseAlways500(code, msg) == [kind |-> "error", status |-> 500, error |-> msg]
ErrorResponse(code, msg) == [kind |-> "error", status |-> code, error |-> msg]

\* jsonify(...) of server.py lines 87-101.  raw_count is int() of an integer
\* count; scaled_count is 14.5 * count rounded to one decimal, which a value
\* in tenths already is.
PredictionResponse(l, prediction, confidence, should_open, now) ==
    [kind       |-> "prediction",
     status     |-> 200,
     prediction |-> prediction,
     confidence |-> Round2(confidence),
     open_lane  |-> should_open,
     timestamp  |-> now,
     stats      |-> [raw_count       |-> l.total_count,
                     scaled_count    |-> l.scaled_total,
                     hour            |-> l.current_hour,
                     day_of_week     |-> l.current_day,
                     is_morning_rush |-> l.is_morning_rush = 1,
                     is_evening_rush |-> l.is_evening_rush = 1,
                     is_weekend      |-> l.is_weekend = 1]]

\* jsonify(...) of server.py lines 110-116
HealthResponse(cfg, le) ==
    [kind          |-> "health",
     status        |-> 200,
     state         |-> "healthy",
     model_type    |-> cfg.model_type,
     classes       |-> le.classes,
     features      |-> cfg.feature_names,
     test_accuracy |-> cfg.test_accuracy]

\* A response without its wall-clock timestamp.
Timeless(r) == IF r.kind = "prediction" THEN [r EXCEPT !.timestamp = 0] ELSE r

----------------------------------------------------------------------------
(* The handler's local variables *)

NoLoc ==
    [total_count |-> 0, scaled_total |-> 0, current_hour |-> 0, current_day |-> 0,
     is_morning_rush |-> 0, is_evening_rush |-> 0, is_night |-> 0, is_weekend |-> 0,
     features |-> << >>, features_scaled |-> << >>, predictions |-> << >>,
     calls |-> << >>]

\* total_count * 14.5, in tenths
ScaleFactor == 145

\* server.py lines 38-39: the time is fixed, whatever the request says.
HourOfRequest(data) == IF data.time.given THEN data.time.hour ELSE 17
CurrentHour(data) == 17

CurrentDay(data) == 4

\* server.py line 32
LengthAtLeastOne(vehicle_counts) == Len(vehicle_counts) < 1
LengthRejected(vehicle_counts) == Len(vehicle_counts) # 1

\* server.py lines 36-65
BuildLocals(data) ==
    LET total_count  == data.counts[1].v
        current_hour == CurrentHour(data)
        current_day  == CurrentDay(data)
    IN  [NoLoc EXCEPT
            !.total_count     = total_count,
            !.scaled_total    = total_count * ScaleFactor,
            !.current_hour    = current_hour,
            !.current_day     = current_day,
            !.is_morning_rush = IsMorningRush(current_hour),
            !.is_evening_rush = IsEveningRush(current_hour),
            !.is_night        = IsNight(current_hour),
            !.is_weekend      = IsWeekend(current_day),
            !.features        = <<total_count * ScaleFactor,
                                  current_hour * 10,
                                  current_day * 10,
                                  IsMorningRush(current_hour) * 10,
                                  IsEveningRush(current_hour) * 10,
                                  IsNight(current_hour) * 10,
                                  IsWeekend(current_day) * 10>>]

\* server.py line 71: what is handed to model.predict
ModelInputUnscaled(features, features_scaled) == features
ModelInput(features, features_scaled) == features_scaled

----------------------------------------------------------------------------
(* The server: module load and the two routes *)

ServerBoot ==
    /\ phase = "boot"
    /\ model = NotLoaded
    /\ scaler = NotLoaded
    /\ label_encoder = NotLoaded
    /\ model_config = NotLoaded

ThreadsIdle ==
    /\ pc = [t \in Threads |-> "idle"]
    /\ req = [t \in Threads |-> NoReq]
    /\ loc = [t \in Threads |-> NoLoc]
    /\ resp = [t \in Threads |-> NoResp]

NoFn == [fn |-> "none"]

Init ==
    /\ disk \in DiskKinds
    /\ ServerBoot
    /\ ThreadsIdle
    /\ fin = NoFn
    /\ fout = NoFn

\* server.py lines 17-20 and 120-122: the keys read while the module loads.
StartupReadsAvailable(cfg) == RequiredConfigKeys \subseteq DOMAIN cfg

\* server.py lines 12-20, then app.run: load the four artifacts, print the
\* banner; a missing key raises KeyError and the process ends.
Startup ==
    /\ phase = "boot"
    /\ model' = Artifacts(disk).model
    /\ scaler' = Artifacts(disk).scaler
    /\ label_encoder' = Artifacts(disk).label_encoder
    /\ model_config' = Artifacts(disk).model_config
    /\ phase' = IF StartupReadsAvailable(Artifacts(disk).model_config)
                THEN "serving" ELSE "crashed"
    /\ UNCHANGED <<disk, thr, fnv>>

Answer(t, r) ==
    /\ pc' = [pc EXCEPT ![t] = "done"]
    /\ resp' = [resp EXCEPT ![t] = r]

\* POST /predict, server.py lines 24-65: parse the body, check the length,
\* build the feature row.
BeginPredict(t, data) ==
    /\ phase = "serving"
    /\ pc[t] = "idle"
    /\ req' = [req EXCEPT ![t] = data]
    /\ UNCHANGED <<srv, fnv>>
    /\ CASE data.kind = "nobody" ->
              Answer(t, ErrorResponse(500, "request.json: no JSON body")) /\ UNCHANGED loc
         [] data.kind = "nocounts" ->
              Answer(t, ErrorResponse(500, "'counts'")) /\ UNCHANGED loc
         [] data.kind = "scalar" ->
              Answer(t, ErrorResponse(500, "object of type 'int' has no len()")) /\ UNCHANGED loc
         [] OTHER ->
              IF LengthRejected(data.counts)
              THEN Answer(t, ErrorResponse(400, "Expected 1 vehicle count")) /\ UNCHANGED loc
              ELSE IF ~data.counts[1].num
              THEN Answer(t, ErrorResponse(500, "can't multiply sequence by non-int of type 'float'"))
                   /\ UNCHANGED loc
              ELSE /\ loc' = [loc EXCEPT ![t] = BuildLocals(data)]
                   /\ pc' = [pc EXCEPT ![t] = "built"]
                   /\ UNCHANGED resp

\* server.py line 67: features_scaled = scaler.transform(features)
Scale(t) ==
    /\ pc[t] = "built"
    /\ LET x == loc[t].features
           r == Transform(scaler, x)
           c == Append(loc[t].calls, [fn |-> "transform", arg |-> x])
       IN  /\ scaler' = ScalerAfterTransform(scaler, x)
           /\ IF r.ok
              THEN /\ loc' = [loc EXCEPT ![t].features_scaled = r.val, ![t].calls = c]
                   /\ pc' = [pc EXCEPT ![t] = "scaled"]
                   /\ UNCHANGED resp
              ELSE /\ loc' = [loc EXCEPT ![t].calls = c]
                   /\ Answer(t, ErrorResponse(500, r.error))
    /\ UNCHANGED <<disk, phase, model, label_encoder, model_config, req, fnv>>

\* server.py line 71: predictions = model.predict(features_scaled)
Infer(t) ==
    /\ pc[t] = "scaled"
    /\ LET x == ModelInput(loc[t].features, loc[t].features_scaled)
           r == Predict(model, x)
           c == Append(loc[t].calls, [fn |-> "predict", arg |-> x])
       IN  IF r.ok
           THEN /\ loc' = [loc EXCEPT ![t].predictions = r.val, ![t].calls = c]
                /\ pc' = [pc EXCEPT ![t] = "inferred"]
                /\ UNCHANGED resp
           ELSE /\ loc' = [loc EXCEPT ![t].calls = c]
                /\ Answer(t, ErrorResponse(500, r.error))
    /\ UNCHANGED <<srv, req, fnv>>

\* server.py lines 72-75
Decode(le, predictions) ==
    LET predicted_class == ArgMax(predictions)
        prediction      == InverseTransform(le, predicted_class)
    IN  [predicted_class |-> predicted_class,
         confidence      |-> Confidence(predictions, predicted_class),
         prediction      |-> prediction,
         should_open     |-> ShouldOpen(prediction)]

\* server.py lines 72-101: decode the output and answer; the timestamp is
\* the wall clock at that moment.
Respond(t) ==
    /\ pc[t] = "inferred"
    /\ \E now \in Ticks :
         LET d == Decode(label_encoder, loc[t].predictions)
         IN  Answer(t, PredictionResponse(loc[t], d.prediction, d.confidence,
                                          d.should_open, now))
    /\ UNCHANGED <<srv, req, loc, fnv>>

\* GET /health, server.py lines 108-116
Health(t) ==
    /\ phase = "serving"
    /\ pc[t] = "idle"
    /\ req' = [req EXCEPT ![t] = HealthRequest]
    /\ Answer(t, HealthResponse(model_config, label_encoder))
    /\ UNCHANGED <<srv, loc, fnv>>

\* The response is sent and the worker takes the next request.
Finish(t) ==
    /\ pc[t] = "done"
    /\ pc' = [pc EXCEPT ![t] = "idle"]
    /\ req' = [req EXCEPT ![t] = NoReq]
    /\ loc' = [loc EXCEPT ![t] = NoLoc]
    /\ resp' = [resp EXCEPT ![t] = NoResp]
    /\ UNCHANGED <<srv, fnv>>

Next ==
    \/ Startup
    \/ \E t \in Threads : \E data \in PredictRequests : BeginPredict(t, data)
    \/ \E t \in Threads : Scale(t)
    \/ \E t \in Threads : Infer(t)
    \/ \E t \in Threads : Respond(t)
    \/ \E t \in Threads : Health(t)
    \/ \E t \in Threads : Finish(t)

Spec == Init /\ [][Next]_vars

----------------------------------------------------------------------------
(* The time indicators as pure functions of hour and weekday *)

Hours == 0..23
Weekdays == 0..6

\* The config module of the training script: the rush-hour and night ranges.
\* The upper night bound differs between variants of the repository.
NightEnds == 4..6
RUSH_HOUR_MORNING == <<7, 9>>
RUSH_HOUR_EVENING == <<16, 19>>
NIGHT_TIME(night_end) == <<22, night_end>>

\* train_model.py lines 25-38, the four indicators (as 0/1; the code
\* stores them as floats 0.0/1.0).
create_time_features(hour, day_of_week, night_end) ==
    [is_morning_rush |-> Bit(hour >= RUSH_HOUR_MORNING[1] /\ hour <= RUSH_HOUR_MORNING[2]),
     is_evening_rush |-> Bit(hour >= RUSH_HOUR_EVENING[1] /\ hour <= RUSH_HOUR_EVENING[2]),
     is_night        |-> Bit(hour >= NIGHT_TIME(night_end)[1] \/ hour < NIGHT_TIME(night_end)[2]),
     is_weekend      |-> Bit(day_of_week >= 5)]

\* server.py lines 46-49 for a given hour and weekday
ServerTimeFeatures(current_hour, current_day) ==
    [is_morning_rush |-> IsMorningRush(current_hour),
     is_evening_rush |-> IsEveningRush(current_hour),
     is_night        |-> IsNight(current_hour),
     is_weekend      |-> IsWeekend(current_day)]

ServerAtRest ==
    /\ disk = "serving"
    /\ ServerBoot
    /\ ThreadsIdle

InitTime ==
    /\ ServerAtRest
    /\ fin \in {[fn |-> "time", hour |-> h, day |-> d, night_end |-> n] :
                  h \in Hours, d \in Weekdays, n \in NightEnds}
    /\ fout = NoFn

ApplyTime ==
    /\ fin.fn = "time"
    /\ fout = NoFn
    /\ fout' = [fn     |-> "time",
                server |-> ServerTimeFeatures(fin.hour, fin.day),
                train  |-> create_time_features(fin.hour, fin.day, fin.night_end)]
    /\ UNCHANGED <<srv, thr, fin>>

NextTime == ApplyTime

SpecTime == InitTime /\ [][NextTime]_vars

----------------------------------------------------------------------------
(* Decoding as a pure function of the model output *)

ProbGrid == {0, 1, 16666, 16667, 24999, 25000, 25001, 33333, 33334,
             49999, 50000, 50001, 50002, 66666, 66667, 99999, 100000}

\* Softmax outputs over the four classes: they sum to 1.
ProbVectors ==
    {p \in [1..Len(Classes) -> ProbGrid] : SumTo(p, Len(Classes)) = 100000}

InitDecode ==
    /\ ServerAtRest
    /\ fin \in {[fn |-> "decode", predictions |-> p] : p \in ProbVectors}
    /\ fout = NoFn

ApplyDecode ==
    /\ fin.fn = "decode"
    /\ fout = NoFn
    /\ LET d == Decode([classes |-> Classes], fin.predictions)
       IN  fout' = [fn              |-> "decode",
                    predicted_class |-> d.predicted_class,
                    prediction      |-> d.prediction,
                    raw_confidence  |-> d.confidence,
                    confidence      |-> Round2(d.confidence)]
    /\ UNCHANGED <<srv, thr, fin>>

NextDecode == ApplyDecode

SpecDecode == InitDecode /\ [][NextDecode]_vars

----------------------------------------------------------------------------
(* Properties *)

Answered(t) == pc[t] = "done" /\ req[t].route = "predict"

Predicted(t) == pc[t] = "done" /\ resp[t].kind = "prediction"

InHandler(t) == pc[t] \in {"built", "scaled", "inferred"} \/ Predicted(t)

NumericList(r) ==
    r.kind = "list" /\ \A i \in 1..Len(r.counts) : r.counts[i].num

\* C1: in every 200 prediction response, open_lane is true exactly when the
\* returned prediction label is 'heavy' or 'high'.
C1_OpenLaneFromLabel ==
    \A t \in Threads :
        Predicted(t) =>
            (resp[t].open_lane <=> resp[t].prediction \in {"heavy", "high"})

C1_Witness ==
    \E t1, t2 \in Threads :
        /\ Predicted(t1) /\ resp[t1].open_lane /\ resp[t1].prediction = "high"
        /\ Predicted(t2) /\ ~resp[t2].open_lane

\* C2 as stated: every /predict request that does not end in a 200
\* prediction ends in a 500 carrying the error message; no other error
\* status is produced.
C2_Only500 ==
    \A t \in Threads :
        Answered(t) =>
            \/ resp[t].kind = "prediction" /\ resp[t].status = 200
            \/ resp[t].kind = "error" /\ resp[t].status = 500 /\ resp[t].error # ""

\* C2 amended: a /predict request ends in 200 with a prediction, in 400
\* exactly when 'counts' has a length and that length is not 1, or in 500; every
\* error body carries a message; a missing body, a missing 'counts' key, a
\* 'counts' without length, a non-numeric count, a scaler failure and a
\* model failure all end in 500.
C2_400Or500 ==
    \A t \in Threads :
        Answered(t) =>
            /\ resp[t].status \in {200, 400, 500}
            /\ resp[t].status = 200 <=> resp[t].kind = "prediction"
            /\ resp[t].status # 200 => resp[t].kind = "error" /\ resp[t].error # ""
            /\ resp[t].status = 400 <=> (req[t].kind = "list" /\ Len(req[t].counts) # 1)
            /\ req[t].kind \in {"nobody", "nocounts", "scalar"} => resp[t].status = 500
            /\ (req[t].kind = "list" /\ Len(req[t].counts) = 1 /\ ~NumericList(req[t]))
                   => resp[t].status = 500
            /\ (disk \in {"widescaler", "widemodel"} /\ Len(req[t].counts) = 1)
                   => resp[t].status = 500

C2_Witness ==
    \E t1, t2 \in Threads :
        /\ Answered(t1) /\ resp[t1].status = 400
        /\ Answered(t2) /\ resp[t2].status = 500 /\ Len(loc[t2].calls) = 2

\* C3: the loaded model, scaler, label encoder and model_config are never
\* changed by a request, and two /predict requests with the same 'counts'
\* payload get the same response (timestamp aside), whatever was handled
\* before or between them.
C3_Stateless ==
    /\ phase = "serving" =>
           /\ model = Artifacts(disk).model
           /\ scaler = Artifacts(disk).scaler
           /\ label_encoder = Artifacts(disk).label_encoder
           /\ model_config = Artifacts(disk).model_config
    /\ \A t1, t2 \in Threads :
           (/\ Answered(t1) /\ Answered(t2)
            /\ req[t1].kind = req[t2].kind
            /\ req[t1].counts = req[t2].counts)
               => Timeless(resp[t1]) = Timeless(resp[t2])

C3_Witness ==
    \E t1, t2 \in Threads :
        /\ t1 # t2
        /\ Predicted(t1) /\ Predicted(t2)
        /\ req[t1].counts = req[t2].counts
        /\ req[t1].time # req[t2].time
        /\ resp[t1].timestamp # resp[t2].timestamp

\* C4 as stated: when a request carries time context, the hour and weekday
\* used for the time features and reported in stats are the request's, and
\* two requests with the same counts but different time context get
\* different time features.
C4_TimeFromRequest ==
    /\ \A t \in Threads :
           (Predicted(t) /\ req[t].time.given) =>
               /\ resp[t].stats.hour = req[t].time.hour
               /\ resp[t].stats.day_of_week = req[t].time.day
    /\ \A t1, t2 \in Threads :
           (/\ InHandler(t1) /\ InHandler(t2)
            /\ req[t1].counts = req[t2].counts
            /\ req[t1].time # req[t2].time)
               => loc[t1].features # loc[t2].features

\* C4 amended: time context in the payload is ignored; every request is
\* given hour 17 and weekday 4, in the features and in stats, so two
\* requests with the same counts get the same time features.
C4_TimeFixed ==
    /\ \A t \in Threads :
           InHandler(t) =>
               /\ loc[t].current_hour = 17 /\ loc[t].current_day = 4
               /\ loc[t].features[2] = 170 /\ loc[t].features[3] = 40
               /\ loc[t].is_morning_rush = 0 /\ loc[t].is_evening_rush = 1
               /\ loc[t].is_night = 0 /\ loc[t].is_weekend = 0
               /\ Predicted(t) =>
                      /\ resp[t].stats.hour = 17
                      /\ resp[t].stats.day_of_week = 4
                      /\ ~resp[t].stats.is_morning_rush
                      /\ resp[t].stats.is_evening_rush
                      /\ ~resp[t].stats.is_weekend
    /\ \A t1, t2 \in Threads :
           (/\ InHandler(t1) /\ InHandler(t2)
            /\ req[t1].counts = req[t2].counts)
               => loc[t1].features = loc[t2].features

C4_Witness ==
    \E t1, t2 \in Threads :
        /\ Predicted(t1) /\ req[t1].time.given /\ req[t1].time.hour = 8
        /\ Predicted(t2) /\ ~req[t2].time.given
        /\ req[t1].counts = req[t2].counts


TimeApplied == fout.fn = "time"

\* The indicator values the specification gives for an hour and a weekday,
\* with the night ending at 4.
IndicatorsAsSpecified ==
    /\ fout.server.is_morning_rush = 1 <=> fin.hour \in 7..9
    /\ fout.server.is_evening_rush = 1 <=> fin.hour \in 16..19
    /\ fout.server.is_night = 1 <=> (fin.hour \in 22..23 \/ fin.hour \in 0..3)
    /\ fout.server.is_weekend = 1 <=> fin.day \in 5..6
    /\ \A k \in DOMAIN fout.server : fout.server[k] \in {0, 1}

ScaledBy(t) == Transform(Artifacts(disk).scaler, loc[t].features)

\* C6: a request that reaches inference builds the feature row, standardizes
\* it with the scaler loaded at startup, runs the model on the standardized
\* row and answers, in that order; the model is never given the unscaled
\* row, each is called once per 200 response, and the scaler is never refit.
C6_ScaleThenInfer ==
    /\ phase = "serving" => scaler = Artifacts(disk).scaler
    /\ \A t \in Threads :
           /\ pc[t] \in {"idle", "built"} => loc[t].calls = << >>
           /\ pc[t] = "built" => Len(loc[t].features) = Len(FeatureNames)
           /\ pc[t] = "scaled" =>
                  /\ loc[t].calls = <<[fn |-> "transform", arg |-> loc[t].features]>>
                  /\ loc[t].features_scaled = ScaledBy(t).val
           /\ (pc[t] = "inferred" \/ Predicted(t)) =>
                  /\ ScaledBy(t).ok
                  /\ loc[t].calls =
                         <<[fn |-> "transform", arg |-> loc[t].features],
                           [fn |-> "predict", arg |-> ScaledBy(t).val]>>
                  /\ loc[t].predictions = Predict(model, ScaledBy(t).val).val
           /\ \A i \in 1..Len(loc[t].calls) :
                  loc[t].calls[i].fn = "predict" =>
                      /\ i = 2
                      /\ loc[t].calls[1].fn = "transform"
                      /\ loc[t].calls[i].arg # loc[t].features

C6_Witness ==
    \E t1, t2 \in Threads :
        /\ Predicted(t1) /\ Len(loc[t1].calls) = 2
        /\ pc[t2] = "scaled"

\* C7 as stated: a numeric window of any length N >= 1 gets a fixed-width
\* feature vector and a prediction; it is not rejected for its length.
C7_AnyLength ==
    \A t \in Threads :
        (Answered(t) /\ NumericList(req[t]) /\ Len(req[t].counts) >= 1) =>
            /\ resp[t].status # 400
            /\ Len(loc[t].features) = Len(FeatureNames)

\* C7 amended: only a window of length 1 is accepted: it gets a feature
\* vector of width 7 and, with a scaler and a model fit on 7 features, a
\* prediction; a window of any other length is rejected with status 400 and
\* no feature vector is built.
C7_LengthOne ==
    \A t \in Threads :
        (req[t].route = "predict" /\ NumericList(req[t])) =>
            /\ Len(req[t].counts) = 1 =>
                   /\ Len(loc[t].features) = 7
                   /\ loc[t].features[1] = req[t].counts[1].v * 145
                   /\ (pc[t] = "done" /\ disk = "serving") => resp[t].kind = "prediction"
            /\ Len(req[t].counts) # 1 =>
                   /\ pc[t] = "done"
                   /\ resp[t].status = 400
                   /\ loc[t].features = << >>

C7_Witness ==
    \E t1, t2 \in Threads :
        /\ Answered(t1) /\ NumericList(req[t1]) /\ Len(req[t1].counts) = 2
        /\ resp[t1].status = 400
        /\ Predicted(t2) /\ Len(req[t2].counts) = 1

\* C8: a /predict request whose 'counts' has a length other than 1 is
\* answered 400 with {'error': 'Expected 1 vehicle count'} before any
\* feature is built: neither scaler.transform nor model.predict is called.
C8_Rejected400 ==
    \A t \in Threads :
        (req[t].route = "predict" /\ req[t].kind = "list" /\ Len(req[t].counts) # 1) =>
            /\ pc[t] = "done"
            /\ resp[t] = [kind |-> "error", status |-> 400,
                          error |-> "Expected 1 vehicle count"]
            /\ loc[t].calls = << >>
            /\ loc[t].features = << >>
            /\ scaler = Artifacts(disk).scaler

C8_Witness ==
    \E t1, t2 \in Threads :
        /\ Answered(t1) /\ req[t1].kind = "list" /\ Len(req[t1].counts) = 0
        /\ Answered(t2) /\ req[t2].kind = "list" /\ Len(req[t2].counts) = MaxLen
        /\ resp[t1].status = 400 /\ resp[t2].status = 400

\* C9: every key the server reads from config.pkl is a key of the
\* dictionary train_model.py dumps, so the server started on the trainer's
\* artifacts loads them and serves.
C9_TrainedArtifactsLoad ==
    disk = "trained" => phase # "crashed"

DecodeApplied == fout.fn = "decode"

\* The predicted class is the lowest index of the largest probability, the
\* label is the encoder's for that index, and the confidence is 100 times
\* that probability to the nearest hundredth.
DecodedAsArgMax ==
    LET p == fin.predictions
        k == fout.predicted_class + 1
    IN  /\ k \in 1..Len(p)
        /\ \A i \in 1..Len(p) : p[i] <= p[k]
        /\ \A i \in 1..(k - 1) : p[i] < p[k]
        /\ fout.prediction = Classes[k]
        /\ fout.raw_confidence = p[k]
        /\ 10 * fout.confidence - p[k] \in -5..5
        /\ fout.confidence \in 0..10000

\* C10 as stated: argmax with the lowest index on ties, its label, its
\* probability times 100 rounded to 2 decimals; hence the confidence is
\* never smaller than 100 times the probability of any other class, and
\* lies in 0..100.
C10_ConfidenceDominates ==
    DecodeApplied =>
        /\ DecodedAsArgMax
        /\ \A i \in 1..Len(fin.predictions) :
               10 * fout.confidence >= fin.predictions[i]

\* C10 amended: as stated, except that rounding may take the confidence
\* below 100 times another class's probability, by less than 0.005: before
\* rounding it is never smaller than 100 times any probability, and after
\* rounding it is never smaller than 100 times any probability minus 0.005.
C10_ConfidenceDominatesUpToRounding ==
    DecodeApplied =>
        /\ DecodedAsArgMax
        /\ \A i \in 1..Len(fin.predictions) :
               /\ fout.raw_confidence >= fin.predictions[i]
               /\ 10 * fout.confidence > fin.predictions[i] - 5

C10_Witness ==
    /\ DecodeApplied
    /\ fin.predictions = <<0, 50000, 50000, 0>>
    /\ fout.predicted_class = 1
    /\ fout.prediction = "high"
    /\ fout.confidence = 5000

====
